---- MODULE Spec2Model ----
(***************************************************************************)
(* Model of .github/scripts/generate_coverage_badge.py: one invocation of  *)
(* main() reads an lcov trace, sums its LH:/LF: records, derives a         *)
(* percentage, picks a colour tier and writes coverage_badge.svg.          *)
(*                                                                         *)
(* Percentages are Python floats rounded to one decimal; the model keeps   *)
(* them as an integer number of tenths (28.7 is 287).  The arithmetic that *)
(* produces them, (lines_hit / lines_found) * 100 followed by round(_, 1), *)
(* is IEEE-754 binary64 arithmetic and is modelled bit for bit: a double   *)
(* is a record [m, e] with m its 53 significand bits, most significant     *)
(* first, and e the exponent of the leading bit.                           *)
(***************************************************************************)
EXTENDS Integers, Sequences, FiniteSets, TLC

VARIABLES
    lcov,                 \* file system: the lcov path, [kind, text]
    badge,                \* file system: coverage_badge.svg, [exists, tokens]
    badgeWritable,        \* file system: whether open("coverage_badge.svg", "w") succeeds
    pc,                   \* position of the process
    runs,                 \* invocations started so far
    seen,                 \* what open()/read() in extract_coverage_from_lcov yielded, [kind, text]
    lines_hit,            \* extract_coverage_from_lcov: lines_hit
    lines_found,          \* extract_coverage_from_lcov: lines_found
    raised,               \* exception caught inside extract_coverage_from_lcov, or "none"
    coverage_percentage,  \* main: coverage_percentage, in tenths, or None
    color,                \* generate_badge: color
    genCalls,             \* calls of generate_badge in this invocation
    log,                  \* lines printed by this invocation
    exitCode,             \* process exit status, or None while running
    exitVia,              \* how the process ended: "sys.exit", "return", "uncaught"
    prev                  \* the file and outcome the invocation started from

vars == <<lcov, badge, badgeWritable, pc, runs, seen, lines_hit, lines_found, raised,
          coverage_percentage, color, genCalls, log, exitCode, exitVia, prev>>

\* Bounds of the model.
MaxLines == 3
MaxRuns == 2
MaxTenths == 1100

\* Python's None, for the integer-valued slots.
None == -1

----------------------------------------------------------------------------
(* IEEE-754 binary64 arithmetic on non-negative values.                    *)

Precision == 53

FZero == [m |-> <<>>, e |-> 0]

RECURSIVE Pow2(_)
Pow2(n) == IF n = 0 THEN 1 ELSE 2 * Pow2(n - 1)

RECURSIVE BitsOf(_)
\* binary digits of a non-negative integer, most significant first
BitsOf(n) == IF n = 0 THEN <<>> ELSE BitsOf(n \div 2) \o <<n % 2>>

RECURSIVE IntOfUpTo(_, _)
\* the integer written by the first n bits
IntOfUpTo(bits, n) == IF n = 0 THEN 0 ELSE 2 * IntOfUpTo(bits, n - 1) + bits[n]

IntOf(bits) == IntOfUpTo(bits, Len(bits))

AnyOne(bits) == \E i \in 1..Len(bits) : bits[i] = 1

Zeros(n) == [i \in 1..n |-> 0]

\* the bits of a sequence of base-256 digits
BitsOfDigits(ds) ==
    [i \in 1..(8 * Len(ds)) |-> (ds[((i - 1) \div 8) + 1] \div Pow2(7 - ((i - 1) % 8))) % 2]

\* the base-256 digits of a bit sequence whose length is a multiple of 8
DigitsOfBits(bits) ==
    [j \in 1..(Len(bits) \div 8) |-> IntOf(SubSeq(bits, 8 * j - 7, 8 * j))]

StripZeros(bits) ==
    IF ~AnyOne(bits) THEN <<>>
    ELSE LET first == CHOOSE i \in 1..Len(bits) :
                          bits[i] = 1 /\ \A j \in 1..(i - 1) : bits[j] = 0
         IN  SubSeq(bits, first, Len(bits))

\* bits + 1, as [bits, carry]
Increment(bits) ==
    IF \A i \in 1..Len(bits) : bits[i] = 1
    THEN [bits |-> Zeros(Len(bits)), carry |-> 1]
    ELSE LET z == CHOOSE i \in 1..Len(bits) :
                      bits[i] = 0 /\ \A j \in (i + 1)..Len(bits) : bits[j] = 1
         IN  [bits  |-> [j \in 1..Len(bits) |->
                            IF j < z THEN bits[j] ELSE IF j = z THEN 1 ELSE 0],
              carry |-> 0]

\* Round-to-nearest-even of the value 1.b2 b3 ... * 2^e to 53 significant bits;
\* bits has a leading 1 and sticky says that non-zero digits follow bits.
RoundNearestEven(bits, sticky, e) ==
    LET padded == bits \o Zeros(Precision + 1)
        m0     == SubSeq(padded, 1, Precision)
        guard  == padded[Precision + 1]
        rest   == sticky \/ AnyOne(SubSeq(padded, Precision + 2, Len(padded)))
        up     == guard = 1 /\ (rest \/ m0[Precision] = 1)
        inc    == Increment(m0)
    IN  IF ~up THEN [m |-> m0, e |-> e]
        ELSE IF inc.carry = 1
             THEN [m |-> <<1>> \o Zeros(Precision - 1), e |-> e + 1]
             ELSE [m |-> inc.bits, e |-> e]

RECURSIVE DivDigits(_, _, _)
\* n further base-256 quotient digits (eight bits at a time) of r / den (r < den), and the remainder left
DivDigits(r, den, n) ==
    IF n = 0 THEN [digits |-> <<>>, rem |-> r]
    ELSE LET d    == (256 * r) \div den
             rest == DivDigits((256 * r) % den, den, n - 1)
         IN  [digits |-> <<d>> \o rest.digits, rem |-> rest.rem]

RECURSIVE ShiftUp(_, _)
\* least k with a * 2^k >= b
ShiftUp(a, b) == IF a >= b THEN 0 ELSE 1 + ShiftUp(2 * a, b)

\* int / int true division: the double nearest to h / f (f > 0)
FDiv(h, f) ==
    IF h = 0 THEN FZero
    ELSE LET up  == ShiftUp(h, f)
             dn  == IF up > 0 THEN 0 ELSE ShiftUp(2 * f, h + 1)
             num == h * Pow2(up)
             den == f * Pow2(dn)
             q   == DivDigits(num - den, den, 7)
         IN  RoundNearestEven(<<1>> \o BitsOfDigits(q.digits), q.rem # 0, dn - up)

RECURSIVE MulDigits(_, _, _, _)
\* (the first n digits of ds) * k + carry, as base-256 digits after the bits of the
\* last carry
MulDigits(ds, n, k, carry) ==
    IF n = 0 THEN [high |-> carry, digits |-> <<>>]
    ELSE LET t    == ds[n] * k + carry
             rest == MulDigits(ds, n - 1, k, t \div 256)
         IN  [high |-> rest.high, digits |-> rest.digits \o <<t % 256>>]

\* significand * k for a small integer k, as a bit sequence with a leading 1
MulSmall(bits, k) ==
    LET ds == DigitsOfBits(Zeros(3) \o bits)
        p  == MulDigits(ds, Len(ds), k, 0)
    IN  StripZeros(BitsOf(p.high) \o BitsOfDigits(p.digits))

\* double * 100: the double nearest to the exact product
FMul100(x) ==
    IF x.m = <<>> THEN FZero
    ELSE LET p == MulSmall(x.m, 100)
         IN  RoundNearestEven(p, FALSE, x.e + (Len(p) - Precision))

\* round(x, 1): the exact value of the double rounded half-even to one decimal,
\* returned in tenths
PyRound1(x) ==
    IF x.m = <<>> THEN 0
    ELSE LET p     == MulSmall(x.m, 10)
             fracN == (Precision - 1) - x.e        \* digits of p after the binary point
             pad   == IF fracN + 1 > Len(p) THEN Zeros(fracN + 1 - Len(p)) \o p ELSE p
             cut   == Len(pad) - fracN
             whole == IntOf(SubSeq(pad, 1, cut))
             frac  == SubSeq(pad, cut + 1, Len(pad))
             half  == frac # <<>> /\ frac[1] = 1
             more  == AnyOne(SubSeq(frac, 2, Len(frac)))
         IN  IF half /\ (more \/ whole % 2 = 1) THEN whole + 1 ELSE whole

----------------------------------------------------------------------------
(* The lcov text and re.findall(r'^LH:(\d+)', content, re.MULTILINE).      *)

Digits == <<"0", "1", "2", "3", "4", "5", "6", "7", "8", "9">>

IsDigit(c) == \E d \in 1..10 : Digits[d] = c

DigitVal(c) == (CHOOSE d \in 1..10 : Digits[d] = c) - 1

\* The lines an lcov file is made of here: plain LH:/LF: records, a record with
\* text after its digits, a zero record, a record name inside another line, a
\* record without digits.
LcovLines == <<
    <<"L", "H", ":", "2", "3">>,
    <<"L", "H", ":", "9", "x">>,
    <<"L", "F", ":", "8", "0">>,
    <<"L", "F", ":", "1", "6">>,
    <<"L", "F", ":", "0">>,
    <<"S", "F", ":", "L", "H", ":", "7">>,
    <<"L", "F", ":">> >>

RECURSIVE JoinLines(_, _)
\* the file text of the first n chosen lines, each ended by a newline
JoinLines(choice, n) ==
    IF n = 0 THEN <<>>
    ELSE JoinLines(choice, n - 1) \o LcovLines[choice[n]] \o <<"\n">>

Texts ==
    { JoinLines(choice, Len(choice)) :
        choice \in UNION { [1..n -> 1..Len(LcovLines)] : n \in 0..MaxLines } }

\* '^' under re.MULTILINE: at the start of the text and right after a newline
AtLineStart(content, i) == i = 1 \/ content[i - 1] = "\n"

\* 'L<tag>:(\d+)' matches at i
MatchesAt(tag, content, i) ==
    /\ i + 3 <= Len(content)
    /\ content[i] = "L" /\ content[i + 1] = tag /\ content[i + 2] = ":"
    /\ IsDigit(content[i + 3])

\* the group (\d+): the longest run of digits from i on
DigitRun(content, i) ==
    LET stop == CHOOSE j \in i..Len(content) :
                    /\ \A k \in i..j : IsDigit(content[k])
                    /\ (j = Len(content) \/ ~IsDigit(content[j + 1]))
    IN  SubSeq(content, i, stop)

MatchPositions(tag, content) ==
    { i \in 1..Len(content) : AtLineStart(content, i) /\ MatchesAt(tag, content, i) }

\* the list of groups, in the order of the text
re_findall(tag, content) ==
    LET P == MatchPositions(tag, content)
        nth(k) == CHOOSE i \in P : Cardinality({ j \in P : j < i }) = k - 1
    IN  [k \in 1..Cardinality(P) |-> DigitRun(content, nth(k) + 3)]

RECURSIVE int_prefix(_, _)
\* int() of the first n digits
int_prefix(ds, n) == IF n = 0 THEN 0 ELSE 10 * int_prefix(ds, n - 1) + DigitVal(ds[n])

int(ds) == int_prefix(ds, Len(ds))

RECURSIVE sum_matches(_, _)
\* the loop "for match in matches: total += int(match)" over the first n matches
sum_matches(matches, n) ==
    IF n = 0 THEN 0 ELSE sum_matches(matches, n - 1) + int(matches[n])

----------------------------------------------------------------------------
(* extract_coverage_from_lcov, after the sums.                             *)

\* lines_hit / lines_found
true_divide(h, f) ==
    IF f = 0 THEN [raised |-> "ZeroDivisionError", value |-> FZero]
    ELSE [raised |-> "none", value |-> FDiv(h, f)]

\* the same lines without "if lines_found == 0: return 0.0"
compute_percentage_unguarded(h, f) ==
    LET q == true_divide(h, f)
    IN  IF q.raised # "none" THEN [raised |-> q.raised, value |-> None]
        ELSE [raised |-> "none", value |-> PyRound1(FMul100(q.value))]

\* the same lines returning None where no line was found
compute_percentage_none_on_zero(h, f) ==
    IF f = 0 THEN [raised |-> "none", value |-> None]
    ELSE compute_percentage_unguarded(h, f)

\* lines 25-29: the value returned, in tenths, or the exception raised
compute_percentage(h, f) ==
    IF f = 0 THEN [raised |-> "none", value |-> 0]
    ELSE LET q == true_divide(h, f)
         IN  IF q.raised # "none" THEN [raised |-> q.raised, value |-> None]
             ELSE [raised |-> "none", value |-> PyRound1(FMul100(q.value))]

\* an except clause that logs and falls off the end of the function
handler_result_none(exc) == None

\* what the except clauses return: 0.0
handler_result(exc) == 0

handler_message(exc) ==
    IF exc = "FileNotFoundError" THEN "Error: Could not find lcov file"
    ELSE "Error reading lcov file"

----------------------------------------------------------------------------
(* get_badge_color and generate_badge.                                     *)

\* the tiers with their lower bounds excluded
get_badge_color_exclusive(p) ==
    IF p > 900 THEN "#4c1"
    ELSE IF p > 800 THEN "#97CA00"
    ELSE IF p > 700 THEN "#a4a61d"
    ELSE IF p > 600 THEN "#dfb317"
    ELSE IF p > 500 THEN "#fe7d37"
    ELSE "#e05d44"

get_badge_color(p) ==
    IF p >= 900 THEN "#4c1"
    ELSE IF p >= 800 THEN "#97CA00"
    ELSE IF p >= 700 THEN "#a4a61d"
    ELSE IF p >= 600 THEN "#dfb317"
    ELSE IF p >= 500 THEN "#fe7d37"
    ELSE "#e05d44"

\* str() of a float with one decimal, from its tenths
format_percentage(p) == ToString(p \div 10) \o "." \o ToString(p % 10)

\* Markup is a sequence of items: an opening tag, an attribute, a text node or a
\* closing tag.
Open(t) == [a |-> "<", v |-> t]
Close(t) == [a |-> "</", v |-> t]
Attr(n, v) == [a |-> n, v |-> v]
Text(t) == [a |-> "#text", v |-> t]

\* lines 57-76: the f-string with color and coverage_percentage filled in
svg_markup(c, p) ==
    << Open("svg"), Attr("xmlns", "http://www.w3.org/2000/svg"),
         Attr("width", "98"), Attr("height", "20"),
       Open("linearGradient"), Attr("id", "b"), Attr("x2", "0"), Attr("y2", "100%"),
       Open("stop"), Attr("offset", "0"), Attr("stop-color", "#bbb"),
         Attr("stop-opacity", ".1"), Close("stop"),
       Open("stop"), Attr("offset", "1"), Attr("stop-opacity", ".1"), Close("stop"),
       Close("linearGradient"),
       Open("mask"), Attr("id", "a"),
       Open("rect"), Attr("width", "98"), Attr("height", "20"), Attr("rx", "3"),
         Attr("fill", "#fff"), Close("rect"),
       Close("mask"),
       Open("g"), Attr("mask", "url(#a)"),
       Open("path"), Attr("fill", "#555"), Attr("d", "M0 0h61v20H0z"), Close("path"),
       Open("path"), Attr("fill", c), Attr("d", "M61 0h37v20H61z"), Close("path"),
       Open("path"), Attr("fill", "url(#b)"), Attr("d", "M0 0h98v20H0z"), Close("path"),
       Close("g"),
       Open("g"), Attr("fill", "#fff"), Attr("text-anchor", "middle"),
         Attr("font-family", "Verdana,Geneva,DejaVu Sans,sans-serif"),
         Attr("font-size", "110"),
       Open("text"), Attr("x", "315"), Attr("y", "150"), Attr("fill", "#010101"),
         Attr("fill-opacity", ".3"), Attr("transform", "scale(.1)"),
         Attr("textLength", "510"), Text("coverage"), Close("text"),
       Open("text"), Attr("x", "315"), Attr("y", "140"), Attr("transform", "scale(.1)"),
         Attr("textLength", "510"), Text("coverage"), Close("text"),
       Open("text"), Attr("x", "785"), Attr("y", "150"), Attr("fill", "#010101"),
         Attr("fill-opacity", ".3"), Attr("transform", "scale(.1)"),
         Attr("textLength", "270"), Text(format_percentage(p) \o "%"), Close("text"),
       Open("text"), Attr("x", "785"), Attr("y", "140"), Attr("transform", "scale(.1)"),
         Attr("textLength", "270"), Text(format_percentage(p) \o "%"), Close("text"),
       Close("g"),
       Close("svg") >>

\* the template with the value segment always bright green
badge_template_fixed_color(c, p) == svg_markup("#4c1", p)

\* generate_badge: badge_template
badge_template(c, p) == svg_markup(c, p)

\* open(..., "a"): the new text after the old
file_write_append(old, new) == old \o new

\* open("coverage_badge.svg", "w") and f.write(badge_template): the old content goes
file_write(old, new) == new

----------------------------------------------------------------------------
(* The file system and the process.                                        *)

Absent == [kind |-> "absent", text |-> <<>>]
Unreadable == [kind |-> "unreadable", text |-> <<>>]
TextFile(t) == [kind |-> "text", text |-> t]

Unopened == [kind |-> "unopened", text |-> <<>>]
NotFound == [kind |-> "notfound", text |-> <<>>]
ReadError == [kind |-> "ioerror", text |-> <<>>]

NoBadge == [exists |-> FALSE, tokens |-> <<>>]
StaleBadge == [exists |-> TRUE, tokens |-> <<Text("stale")>>]

\* os.path.exists answering True whatever is there
path_exists_always(f) == TRUE

\* os.path.exists(lcov_file_path)
path_exists(f) == f.kind # "absent"

\* an uncaught exception leaving the status at 0
exit_status_uncaught_zero(via) == IF via = "sys.exit" THEN 1 ELSE 0

\* the status of the process: sys.exit(1) and an uncaught exception give 1
exit_status(via) == IF via = "return" THEN 0 ELSE 1

Init ==
    /\ lcov \in {Absent, Unreadable} \cup { TextFile(t) : t \in Texts }
    /\ badge \in {NoBadge, StaleBadge}
    /\ badgeWritable \in BOOLEAN
    /\ pc = "idle"
    /\ runs = 0
    /\ seen = Unopened
    /\ lines_hit = 0
    /\ lines_found = 0
    /\ raised = "none"
    /\ coverage_percentage = None
    /\ color = ""
    /\ genCalls = 0
    /\ log = <<>>
    /\ exitCode = None
    /\ exitVia = "running"
    /\ prev = [badge |-> badge, seen |-> Unopened, exitCode |-> None]

\* The script is invoked: main() starts with fresh locals.
Start ==
    /\ pc \in {"idle", "exited"}
    /\ runs < MaxRuns
    /\ runs' = runs + 1
    /\ prev' = [badge |-> badge, seen |-> seen, exitCode |-> exitCode]
    /\ pc' = "check"
    /\ seen' = Unopened
    /\ lines_hit' = 0
    /\ lines_found' = 0
    /\ raised' = "none"
    /\ coverage_percentage' = None
    /\ color' = ""
    /\ genCalls' = 0
    /\ log' = <<>>
    /\ exitCode' = None
    /\ exitVia' = "running"
    /\ UNCHANGED <<lcov, badge, badgeWritable>>

\* main, lines 91-94
CheckExists ==
    /\ pc = "check"
    /\ IF ~path_exists(lcov)
       THEN /\ log' = Append(log, "Error: lcov file not found")
            /\ exitVia' = "sys.exit"
            /\ exitCode' = exit_status("sys.exit")
            /\ pc' = "exited"
       ELSE /\ pc' = "open"
            /\ UNCHANGED <<log, exitVia, exitCode>>
    /\ UNCHANGED <<lcov, badge, badgeWritable, runs, seen, lines_hit, lines_found, raised,
                   coverage_percentage, color, genCalls, prev>>

\* Another process removes the lcov file between two steps of the script.
RemoveLcov ==
    /\ pc \in {"open", "exited"}
    /\ lcov.kind # "absent"
    /\ lcov' = Absent
    /\ UNCHANGED <<badge, badgeWritable, pc, runs, seen, lines_hit, lines_found, raised,
                   coverage_percentage, color, genCalls, log, exitCode, exitVia, prev>>

\* extract_coverage_from_lcov, lines 7-9 with the handlers of lines 31-36
OpenRead ==
    /\ pc = "open"
    /\ IF lcov.kind = "text"
       THEN /\ seen' = lcov
            /\ pc' = "scan"
            /\ UNCHANGED <<raised, log, coverage_percentage>>
       ELSE LET exc == IF lcov.kind = "absent" THEN "FileNotFoundError" ELSE "Exception"
            IN  /\ seen' = IF lcov.kind = "absent" THEN NotFound ELSE ReadError
                /\ raised' = exc
                /\ log' = Append(log, handler_message(exc))
                /\ coverage_percentage' = handler_result(exc)
                /\ pc' = "returned"
    /\ UNCHANGED <<lcov, badge, badgeWritable, runs, lines_hit, lines_found, color,
                   genCalls, exitCode, exitVia, prev>>

\* extract_coverage_from_lcov, lines 12-23
Scan ==
    /\ pc = "scan"
    /\ lines_hit' = LET m == re_findall("H", seen.text) IN sum_matches(m, Len(m))
    /\ lines_found' = LET m == re_findall("F", seen.text) IN sum_matches(m, Len(m))
    /\ pc' = "ratio"
    /\ UNCHANGED <<lcov, badge, badgeWritable, runs, seen, raised, coverage_percentage,
                   color, genCalls, log, exitCode, exitVia, prev>>

\* extract_coverage_from_lcov, lines 25-29 with the handler of lines 34-36
Ratio ==
    /\ pc = "ratio"
    /\ LET r == compute_percentage(lines_hit, lines_found)
       IN  IF r.raised = "none"
           THEN /\ coverage_percentage' = r.value
                /\ UNCHANGED <<raised, log>>
           ELSE /\ raised' = r.raised
                /\ log' = Append(log, handler_message(r.raised))
                /\ coverage_percentage' = handler_result(r.raised)
    /\ pc' = "returned"
    /\ UNCHANGED <<lcov, badge, badgeWritable, runs, seen, lines_hit, lines_found, color,
                   genCalls, exitCode, exitVia, prev>>

\* main, lines 99-103
CheckNone ==
    /\ pc = "returned"
    /\ IF coverage_percentage = None
       THEN /\ log' = Append(log, "Error: Could not extract coverage percentage")
            /\ exitVia' = "sys.exit"
            /\ exitCode' = exit_status("sys.exit")
            /\ pc' = "exited"
       ELSE /\ log' = Append(log, "Coverage: " \o format_percentage(coverage_percentage) \o "%")
            /\ pc' = "generate"
            /\ UNCHANGED <<exitVia, exitCode>>
    /\ UNCHANGED <<lcov, badge, badgeWritable, runs, seen, lines_hit, lines_found, raised,
                   coverage_percentage, color, genCalls, prev>>

\* generate_badge, lines 53-81, and the end of the process
GenerateBadge ==
    /\ pc = "generate"
    /\ genCalls' = genCalls + 1
    /\ color' = get_badge_color(coverage_percentage)
    /\ IF badgeWritable
       THEN /\ badge' = [exists |-> TRUE,
                         tokens |-> file_write(badge.tokens,
                                               badge_template(color', coverage_percentage))]
            /\ log' = Append(log, "Generated coverage badge with "
                                  \o format_percentage(coverage_percentage) \o "% coverage")
            /\ exitVia' = "return"
            /\ exitCode' = exit_status("return")
       ELSE \* open() raises and nothing catches it
            /\ exitVia' = "uncaught"
            /\ exitCode' = exit_status("uncaught")
            /\ UNCHANGED <<badge, log>>
    /\ pc' = "exited"
    /\ UNCHANGED <<lcov, badgeWritable, runs, seen, lines_hit, lines_found, raised,
                   coverage_percentage, prev>>

Next ==
    \/ Start
    \/ CheckExists
    \/ RemoveLcov
    \/ OpenRead
    \/ Scan
    \/ Ratio
    \/ CheckNone
    \/ GenerateBadge

Spec == Init /\ [][Next]_vars

\* generate_badge called on its own with every percentage up to MaxTenths
InitRender ==
    /\ lcov = Absent
    /\ badge \in {NoBadge, StaleBadge}
    /\ badgeWritable \in BOOLEAN
    /\ pc = "generate"
    /\ runs = 1
    /\ seen = Unopened
    /\ lines_hit = 0
    /\ lines_found = 0
    /\ raised = "none"
    /\ coverage_percentage \in 0..MaxTenths
    /\ color = ""
    /\ genCalls = 0
    /\ log = <<>>
    /\ exitCode = None
    /\ exitVia = "running"
    /\ prev = [badge |-> badge, seen |-> Unopened, exitCode |-> None]

NextRender == GenerateBadge

SpecRender == InitRender /\ [][NextRender]_vars

----------------------------------------------------------------------------
(* What the specification says, stated apart from the code above.          *)

\* where the lines of a text start
LineStartsOf(text) == { i \in 1..Len(text) : i = 1 \/ text[i - 1] = "\n" }

RECURSIVE DecimalValue(_, _, _)
\* the integer written by the digits of text from i on, after acc
DecimalValue(text, i, acc) ==
    IF i > Len(text) \/ ~IsDigit(text[i]) THEN acc
    ELSE DecimalValue(text, i + 1, 10 * acc + DigitVal(text[i]))

\* what the line starting at s contributes to the total of the records named tag
LineValue(tag, text, s) ==
    IF /\ s + 2 <= Len(text)
       /\ SubSeq(text, s, s + 2) = <<"L", tag, ":">>
    THEN DecimalValue(text, s + 3, 0)
    ELSE 0

RECURSIVE SumLines(_, _, _)
SumLines(tag, text, starts) ==
    IF starts = {} THEN 0
    ELSE LET s == CHOOSE x \in starts : TRUE
         IN  LineValue(tag, text, s) + SumLines(tag, text, starts \ {s})

\* the sum of the integers of all lines beginning with L<tag>:
LineSum(tag, text) == SumLines(tag, text, LineStartsOf(text))

HasRecord(tag, text) ==
    \E s \in LineStartsOf(text) :
        s + 2 <= Len(text) /\ SubSeq(text, s, s + 2) = <<"L", tag, ":">>

\* the tier of a percentage (in tenths), lower bounds inclusive
TierColor(p) ==
    CASE p >= 900 -> "#4c1"
      [] p >= 800 /\ p < 900 -> "#97CA00"
      [] p >= 700 /\ p < 800 -> "#a4a61d"
      [] p >= 600 /\ p < 700 -> "#dfb317"
      [] p >= 500 /\ p < 600 -> "#fe7d37"
      [] p < 500 -> "#e05d44"

\* how many items of a markup carry the value v
CountValue(tokens, v) == Cardinality({ i \in 1..Len(tokens) : tokens[i].v = v })

\* how many attributes named n carry the value v
CountAttr(tokens, n, v) ==
    Cardinality({ i \in 1..Len(tokens) : tokens[i].a = n /\ tokens[i].v = v })

ExtractReturned == pc \in {"returned", "generate", "exited"} /\ seen.kind # "unopened"

RedZeroBadge == [exists |-> TRUE, tokens |-> svg_markup("#e05d44", 0)]

----------------------------------------------------------------------------
C2_Claim ==
    coverage_percentage # None => coverage_percentage >= 0 /\ coverage_percentage <= 1000

\* C3 as claimed: for a readable text whose LF: lines sum to F > 0, the value
\* returned is round(100 * H / F, 1), H and F being the sums of the integers of the
\* lines beginning with LH: and LF:, every other line contributing nothing.
C3_Claim ==
    ExtractReturned /\ seen.kind = "text" /\ LineSum("F", seen.text) > 0
        => coverage_percentage =
               PyRound1(FDiv(100 * LineSum("H", seen.text), LineSum("F", seen.text)))

\* The part of C3 the code does satisfy: the two totals are the sums over the lines
\* beginning with LH: and LF:, and the value returned is (H / F) * 100 rounded.
C3_SumsAgree ==
    ExtractReturned /\ seen.kind = "text"
        => /\ lines_hit = LineSum("H", seen.text)
           /\ lines_found = LineSum("F", seen.text)
           /\ (lines_found > 0 =>
                  coverage_percentage = PyRound1(FMul100(FDiv(lines_hit, lines_found))))

\* C4: if the text has no LF: line, or its LF: values sum to 0, the value returned
\* is exactly 0.0 whatever the LH: lines say, and no division is attempted: no
\* ZeroDivisionError is raised.
C4_ZeroFound ==
    (/\ ExtractReturned
     /\ seen.kind = "text"
     /\ (~HasRecord("F", seen.text) \/ LineSum("F", seen.text) = 0))
        => /\ coverage_percentage = 0
           /\ raised = "none"
           /\ \A i \in 1..Len(log) : log[i] # "Error reading lcov file"

C4_Witness ==
    /\ pc = "returned" /\ seen.kind = "text"
    /\ LineSum("H", seen.text) > 0 /\ HasRecord("F", seen.text)
    /\ LineSum("F", seen.text) = 0
    /\ coverage_percentage = 0 /\ raised = "none"

\* C5: get_badge_color maps every percentage to exactly one tier, lower bounds
\* inclusive: 89.9 green, 90.0 bright green, 59.9 orange, 60.0 yellow.
C5_Tiers ==
    pc = "exited" /\ genCalls = 1
        => /\ color = TierColor(coverage_percentage)
           /\ (coverage_percentage = 899 => color = "#97CA00")
           /\ (coverage_percentage = 900 => color = "#4c1")
           /\ (coverage_percentage = 599 => color = "#fe7d37")
           /\ (coverage_percentage = 600 => color = "#dfb317")

C5_Witness == pc = "exited" /\ genCalls = 1 /\ coverage_percentage = 900 /\ color = "#4c1"

C7_Original ==
    pc = "exited" /\ runs >= 1
        => exitCode = IF seen.kind = "unopened" \/ coverage_percentage = None THEN 1 ELSE 0

\* C7 as amended: a run ends with exit code 1 if the lcov file does not exist at
\* the existence check or if writing coverage_badge.svg raises (nothing catches
\* that), and with exit code 0 in every other case.
C7_ExitCodes ==
    pc = "exited" /\ runs >= 1
        => exitCode = IF seen.kind = "unopened" \/ (genCalls = 1 /\ ~badgeWritable)
                      THEN 1 ELSE 0

C7_Witness ==
    /\ pc = "exited" /\ seen.kind = "text" /\ coverage_percentage # None
    /\ genCalls = 1 /\ ~badgeWritable /\ exitVia = "uncaught" /\ exitCode = 1

\* C8: a second run in succession on the same input leaves coverage_badge.svg with
\* exactly the content the first run left: the markup once, nothing appended.
C8_Twice ==
    pc = "exited" /\ runs >= 2 /\ prev.exitCode = 0 /\ prev.seen = seen
        => /\ exitCode = 0
           /\ badge = prev.badge
           /\ badge.tokens = svg_markup(TierColor(coverage_percentage), coverage_percentage)

C8_Witness ==
    /\ pc = "exited" /\ runs = 2 /\ prev.exitCode = 0 /\ prev.seen = seen
    /\ seen.kind = "text" /\ exitCode = 0 /\ badge.exists /\ badge = prev.badge

\* C9: the markup generate_badge writes holds the text '<p>%' exactly twice and the
\* tier colour of p as a fill value exactly once.
C9_Markup ==
    pc = "exited" /\ exitCode = 0 /\ genCalls = 1
        => LET p == coverage_percentage
           IN  /\ CountValue(badge.tokens, format_percentage(p) \o "%") = 2
               /\ CountAttr(badge.tokens, "fill", TierColor(p)) = 1
               /\ color = TierColor(p)

C9_Witness ==
    /\ pc = "exited" /\ exitCode = 0 /\ coverage_percentage = 855
    /\ CountValue(badge.tokens, "85.5%") = 2
    /\ CountAttr(badge.tokens, "fill", "#97CA00") = 1

\* C10: extract_coverage_from_lcov returns a number on every path and never None,
\* so main()'s 'Could not extract coverage percentage' exit is never taken; every
\* run that passes the existence check calls generate_badge exactly once, and the
\* only sys.exit(1) main() performs is the one for the missing file.
C10_NeverNone ==
    /\ (pc \in {"returned", "generate"} => coverage_percentage # None)
    /\ (pc = "exited" /\ seen.kind # "unopened" => genCalls = 1)
    /\ (pc = "exited" /\ exitVia = "sys.exit"
          => seen.kind = "unopened" /\ log = <<"Error: lcov file not found">>)

C10_Witness ==
    /\ pc = "exited" /\ raised = "FileNotFoundError" /\ seen.kind = "notfound"
    /\ coverage_percentage = 0 /\ genCalls = 1
====
